---- MODULE Spec2Model ----
(***************************************************************************)
(* Data Center Water Risk Dashboard: the spreadsheet loader (utils.py) and *)
(* the script that renders the three views (app.py).                       *)
(*                                                                         *)
(* A text is a sequence of Unicode code points, so that trimming, prefix   *)
(* tests and comparisons are computed character by character.  A cell is a *)
(* text, an integer, a float, or NaN (pandas' missing value).              *)
(***************************************************************************)
EXTENDS Naturals, Sequences, FiniteSets

VARIABLES
    file,        \* Final.Project.Data.xlsx on disk: absent, unreadable, or a sheet
    session_df,  \* st.session_state["df"]
    section,     \* the sidebar radio's value
    df,          \* the script's df (app.py: df = st.session_state.get("df"))
    pc,          \* position of the running script / of the call under test
    ret,         \* what the most recent load_excel call did
    out,         \* what the current script run has put on the page
    slot_before  \* st.session_state["df"] as it was when the current run started

vars == <<file, session_df, section, df, pc, ret, out, slot_before>>

----------------------------------------------------------------------------
(* Bounds of the model.                                                    *)

\* Largest number of data rows below the header row of a sheet.
MaxRows == 3

\* Number of columns of the selected range (key column + metric columns);
\* the program's range F:N has 9.
NumCols == 3

----------------------------------------------------------------------------
(* Text and cells.                                                         *)

\* A text cell, an integer cell, a float cell whose value is the whole
\* number n, and the missing value.
Str(s) == [t |-> "str", s |-> s, n |-> 0]
Num(n) == [t |-> "int", s |-> <<>>, n |-> n]
Flt(n) == [t |-> "float", s |-> <<>>, n |-> n]
NaN    == [t |-> "nan", s |-> <<>>, n |-> 0]

\* A blank cell of the sheet: the reader hands it on as the empty text.
Blank == Str(<<>>)

\* The code points str.strip() removes: those for which str.isspace() holds
\* (U+0009..U+000D, U+001C..U+0020, U+0085, U+00A0, U+1680, U+2000..U+200A,
\* U+2028, U+2029, U+202F, U+205F, U+3000).
Whitespace ==
    (9..13) \cup (28..32) \cup {133, 160, 5760} \cup (8192..8202)
        \cup {8232, 8233, 8239, 8287, 12288}

RECURSIVE lstrip(_)
lstrip(s) ==
    IF s = <<>> THEN s
    ELSE IF Head(s) \in Whitespace THEN lstrip(Tail(s)) ELSE s

RECURSIVE rstrip(_)
rstrip(s) ==
    IF s = <<>> THEN s
    ELSE IF s[Len(s)] \in Whitespace THEN rstrip(SubSeq(s, 1, Len(s) - 1)) ELSE s

\* Variant: only the leading whitespace is removed.
strip_leading_only(s) == lstrip(s)

\* str.strip()
strip(s) == rstrip(lstrip(s))

\* str.startswith(prefix)
startswith(s, prefix) ==
    /\ Len(s) >= Len(prefix)
    /\ SubSeq(s, 1, Len(prefix)) = prefix

\* str(n) for a natural number ("0" is code point 48)
RECURSIVE str_of_int(_)
str_of_int(n) ==
    IF n < 10 THEN <<48 + n>>
    ELSE str_of_int(n \div 10) \o <<48 + (n % 10)>>

\* Series.astype(str) on one value: an int prints as "5", the same number
\* in a float64 column as "5.0", the missing value as "nan".
astype_str(c) ==
    CASE c.t = "str"   -> c.s
      [] c.t = "int"   -> str_of_int(c.n)
      [] c.t = "float" -> str_of_int(c.n) \o <<46, 48>>
      [] OTHER         -> <<110, 97, 110>>

Unnamed     == <<85, 110, 110, 97, 109, 101, 100>>                      \* "Unnamed"
City        == <<67, 105, 116, 121>>                                    \* "City"
Austin      == <<65, 117, 115, 116, 105, 110>>                          \* "Austin"
Reno        == <<82, 101, 110, 111>>                                    \* "Reno"
NA          == <<78, 65>>                                               \* "NA"
WaterStress == <<87, 97, 116, 101, 114, 32, 83, 116, 114, 101, 115, 115>>  \* "Water Stress"
Rank        == <<82, 97, 110, 107>>                                     \* "Rank"
Title       == <<68, 97, 116, 97>>                                      \* "Data"

\* The texts pandas' reader takes for a missing value in a data cell
\* (keep_default_na; pandas 2.0 and later, where "None" is one of them);
\* the empty text is what a blank cell reads as.  The match is exact.
NaValues == {
    <<>>,                                          \* ""
    <<35, 78, 47, 65>>,                            \* "#N/A"
    <<35, 78, 47, 65, 32, 78, 47, 65>>,            \* "#N/A N/A"
    <<35, 78, 65>>,                                \* "#NA"
    <<45, 49, 46, 35, 73, 78, 68>>,                \* "-1.#IND"
    <<45, 49, 46, 35, 81, 78, 65, 78>>,            \* "-1.#QNAN"
    <<45, 78, 97, 78>>,                            \* "-NaN"
    <<45, 110, 97, 110>>,                          \* "-nan"
    <<49, 46, 35, 73, 78, 68>>,                    \* "1.#IND"
    <<49, 46, 35, 81, 78, 65, 78>>,                \* "1.#QNAN"
    <<60, 78, 65, 62>>,                            \* "<NA>"
    <<78, 47, 65>>,                                \* "N/A"
    NA,                                            \* "NA"
    <<78, 85, 76, 76>>,                            \* "NULL"
    <<78, 97, 78>>,                                \* "NaN"
    <<78, 111, 110, 101>>,                         \* "None"
    <<110, 47, 97>>,                               \* "n/a"
    <<110, 97, 110>>,                              \* "nan"
    <<110, 117, 108, 108>>}                        \* "null"

----------------------------------------------------------------------------
(* Data frames.  dtypes holds the columns' dtypes, index the row labels,   *)
(* rows the rows' cells.                                                   *)

None == [none |-> TRUE, columns |-> <<>>, dtypes |-> <<>>, index |-> <<>>, rows |-> <<>>]

DataFrame(columns, dtypes, index, rows) ==
    [none |-> FALSE, columns |-> columns, dtypes |-> dtypes,
     index |-> index, rows |-> rows]

\* df.empty
empty(d) == Len(d.columns) = 0 \/ Len(d.rows) = 0

\* Position of the first column called name (0 when there is none).
col_loc(d, name) ==
    IF \E j \in 1..Len(d.columns) : d.columns[j] = name
    THEN CHOOSE j \in 1..Len(d.columns) :
            /\ d.columns[j] = name
            /\ \A k \in 1..(j - 1) : d.columns[k] # name
    ELSE 0

\* Positions i..Len(mask) at which mask is TRUE, in increasing order.
RECURSIVE true_positions(_, _)
true_positions(mask, i) ==
    IF i > Len(mask) THEN <<>>
    ELSE (IF mask[i] THEN <<i>> ELSE <<>>) \o true_positions(mask, i + 1)

\* The rows at the positions pos, in that order, labels carried along.
take(d, pos) ==
    DataFrame(d.columns, d.dtypes,
              [k \in 1..Len(pos) |-> d.index[pos[k]]],
              [k \in 1..Len(pos) |-> d.rows[pos[k]]])

\* df[mask]
boolean_index(d, mask) == take(d, true_positions(mask, 1))

\* df.dropna(subset=[name])
dropna(d, name) ==
    LET j == col_loc(d, name)
    IN  boolean_index(d, [i \in 1..Len(d.rows) |-> d.rows[i][j] # NaN])

\* df.reset_index(drop=True)
reset_index(d) ==
    DataFrame(d.columns, d.dtypes, [i \in 1..Len(d.rows) |-> i - 1], d.rows)

----------------------------------------------------------------------------
(* The file and pandas' reader.                                            *)

\* sheet[r + 1] is physical row r of the selected range of Sheet1.
Absent     == [exists |-> FALSE, readable |-> FALSE, sheet |-> <<>>]
Unreadable == [exists |-> TRUE,  readable |-> FALSE, sheet |-> <<>>]
Workbook(sheet) == [exists |-> TRUE, readable |-> TRUE, sheet |-> sheet]

\* Zero-based position of column F, the first of usecols="F:N".
UseColsFirst == 5

\* The name the reader gives a column whose header cell is blank:
\* "Unnamed: N".
placeholder(j) == Str(Unnamed \o <<58, 32>> \o str_of_int(UseColsFirst + j - 1))

\* A data cell as parsed: the default NA texts become NaN.
parse_cell(c) == IF c.t = "str" /\ c.s \in NaValues THEN NaN ELSE c

\* The rows the reader works on: the sheet's rows up to the last one that
\* has a value.
RECURSIVE get_sheet_data(_)
get_sheet_data(sheet) ==
    IF sheet = <<>> THEN sheet
    ELSE IF \A j \in 1..Len(sheet[Len(sheet)]) : sheet[Len(sheet)][j] = Blank
         THEN get_sheet_data(SubSeq(sheet, 1, Len(sheet) - 1))
         ELSE sheet

\* The dtype the reader gives a column of parsed cells: object with a text
\* in it (or with no cell at all), float64 for numbers with a missing value
\* among them, int64 for whole numbers alone.
infer_dtype(cells) ==
    IF cells = <<>> \/ \E i \in 1..Len(cells) : cells[i].t = "str" THEN "object"
    ELSE IF \E i \in 1..Len(cells) : cells[i] = NaN THEN "float64"
    ELSE "int64"

\* A parsed cell as it is held in a column of that dtype.
convert_cell(c, dtype) == IF dtype = "float64" /\ c.t = "int" THEN Flt(c.n) ELSE c

\* pd.read_excel(..., header=header_row) raises: the sheet has rows, but
\* none at header_row ("Passed header=[h] ... but only n lines in file").
read_raises(sheet, header_row) ==
    LET data == get_sheet_data(sheet)
    IN  0 < Len(data) /\ Len(data) <= header_row

\* pd.read_excel(..., header=header_row) on a readable workbook, when it
\* does not raise.  A sheet without rows gives a frame without columns.
_read(sheet, header_row) ==
    LET data   == get_sheet_data(sheet)
        hdr    == data[header_row + 1]
        n      == Len(data) - header_row - 1
        parsed == [i \in 1..n |-> [j \in 1..Len(hdr) |->
                                        parse_cell(data[header_row + 1 + i][j])]]
        dtypes == [j \in 1..Len(hdr) |-> infer_dtype([i \in 1..n |-> parsed[i][j]])]
    IN  IF data = <<>> THEN DataFrame(<<>>, <<>>, <<>>, <<>>)
        ELSE DataFrame([j \in 1..Len(hdr) |->
                            IF hdr[j] = Blank THEN placeholder(j) ELSE hdr[j]],
                       dtypes,
                       [i \in 1..n |-> i - 1],
                       [i \in 1..n |-> [j \in 1..Len(hdr) |->
                                            convert_cell(parsed[i][j], dtypes[j])]])

\* df.columns = df.columns.str.strip()
strip_columns(d) ==
    DataFrame([j \in 1..Len(d.columns) |-> Str(strip(d.columns[j].s))],
              d.dtypes, d.index, d.rows)

\* df[df[city_col].astype(str).str.strip() != ""]
drop_blank(d, city_col) ==
    LET j == col_loc(d, city_col)
    IN  boolean_index(d, [i \in 1..Len(d.rows) |->
                                strip(astype_str(d.rows[i][j])) # <<>>])

\* Variant: the existence check is not made.
isfile_unchecked(f) == TRUE

\* os.path.isfile(DEFAULT_DATA_PATH)
isfile(f) == f.exists

\* Variant: the first column name is compared with "Unnamed" itself.
is_unnamed_exact(d) == d.columns[1].s = Unnamed

\* df.columns[0].startswith("Unnamed")
is_unnamed(d) == startswith(d.columns[1].s, Unnamed)

Returned(d, reads) == [raised |-> FALSE, df |-> d, reads |-> reads]
Raised(reads)      == [raised |-> TRUE, df |-> None, reads |-> reads]

\* load_excel() from its first read on, the workbook being readable.  The
\* first read raises on a sheet that ends above physical row 2; on a sheet
\* without rows it gives a frame without columns and df.columns[0] raises;
\* the second read raises on a sheet that ends above physical row 3.
load_table(f) ==
    IF read_raises(f.sheet, 2) THEN Raised(<<2>>)
    ELSE LET d1 == _read(f.sheet, 2)
         IN  IF Len(d1.columns) = 0 THEN Raised(<<2>>)
             ELSE IF is_unnamed(d1) /\ read_raises(f.sheet, 3) THEN Raised(<<2, 3>>)
             ELSE LET retry    == is_unnamed(d1)
                      d2       == IF retry THEN _read(f.sheet, 3) ELSE d1
                      d3       == strip_columns(d2)
                      city_col == d3.columns[1]
                      d4       == dropna(d3, city_col)
                      d5       == drop_blank(d4, city_col)
                  IN  Returned(reset_index(d5), IF retry THEN <<2, 3>> ELSE <<2>>)

\* Variant: a failing read is answered with None.
load_excel_swallowing(f) ==
    IF ~isfile(f) THEN Returned(None, <<>>)
    ELSE IF ~f.readable THEN Returned(None, <<2>>)
    ELSE load_table(f)

\* load_excel(): what it returns or that it raised, and the header rows of
\* the reads it made, in order.  The first read of an unreadable workbook
\* raises, and nothing here catches an exception of a read.
load_excel(f) ==
    IF ~isfile(f) THEN Returned(None, <<>>)
    ELSE IF ~f.readable THEN Raised(<<2>>)
    ELSE load_table(f)

\* Variant: every column name is returned.
get_metric_columns_all(d) ==
    IF d.none \/ empty(d) \/ Len(d.columns) < 2 THEN <<>>
    ELSE d.columns

\* get_metric_columns(df)
get_metric_columns(d) ==
    IF d.none \/ empty(d) \/ Len(d.columns) < 2 THEN <<>>
    ELSE SubSeq(d.columns, 2, Len(d.columns))

----------------------------------------------------------------------------
(* The files of the model follow the documented layout.  The header row is *)
(* physical row 2, or physical row 3 below a row whose first cell is       *)
(* blank; header labels are texts that differ after trimming; key cells    *)
(* are texts, blank, or a number; metric cells are numbers that tell the   *)
(* rows apart, or blank.  No text of a cell is a numeral or a truth value, *)
(* so the reader leaves every text a text.  Besides these there are the    *)
(* sheets that end above their header row.                                 *)

pad(s) == <<32, 32>> \o s \o <<32, 32>>

\* " Reno" followed by a line feed
RenoPadded == <<32>> \o Reno \o <<10>>

\* Key-column cells of data rows: blank, a no-break space and a tab, names,
\* the text "NA", a number.
Keys == {Blank, Str(<<160, 9>>), Str(Austin), Str(RenoPadded), Str(NA), Num(7)}

\* First-column header labels.
KeyLabels == {City, pad(City)}

\* Labels of the first metric column; the other metric columns have one.
MetricLabels == {WaterStress, pad(WaterStress), <<>>}

\* "Rank" for the third column, "M4", "M5", ... for the following ones.
OtherLabel(j) == IF j = 3 THEN Rank ELSE <<77>> \o str_of_int(j)

TitleRow == [j \in 1..NumCols |-> IF j = 1 THEN Str(Title) ELSE Blank]
BlankRow == [j \in 1..NumCols |-> Blank]

HeaderRow(c0, m) ==
    [j \in 1..NumCols |-> Str(IF j = 1 THEN c0 ELSE IF j = 2 THEN m ELSE OtherLabel(j))]

\* The data row at physical row r with key cell k; with gap, its first
\* metric cell is blank.
DataRow(k, r, gap) ==
    [j \in 1..NumCols |->
        IF j = 1 THEN k ELSE IF j = 2 /\ gap THEN Blank ELSE Num(10 * r + j)]

KeySeqs == UNION {[1..n -> Keys] : n \in 0..MaxRows}

\* Header in physical row 2, data from physical row 3; gap is the data row
\* whose first metric cell is blank (0: none).
Row3Sheet(c0, m, keys, gap) ==
    <<TitleRow, BlankRow, HeaderRow(c0, m)>>
        \o [i \in 1..Len(keys) |-> DataRow(keys[i], 2 + i, i = gap)]

\* First cell of physical row 2 blank, header in physical row 3.
Row4Sheet(c0, m, keys, gap) ==
    <<TitleRow, BlankRow, BlankRow, HeaderRow(c0, m)>>
        \o [i \in 1..Len(keys) |-> DataRow(keys[i], 3 + i, i = gap)]

\* Sheets that end above a header row: no row at all, the title alone, and
\* three rows the third of which has a blank first cell.
ShortSheets ==
    {<<>>, <<TitleRow>>, <<TitleRow, BlankRow, HeaderRow(<<>>, WaterStress)>>}

Sheets ==
    {Row3Sheet(c0, m, keys, 0) : c0 \in KeyLabels, m \in MetricLabels, keys \in KeySeqs}
    \cup
    {Row4Sheet(c0, m, keys, 0) :
        c0 \in KeyLabels \cup {<<>>}, m \in MetricLabels, keys \in KeySeqs}
    \cup
    {Row3Sheet(City, WaterStress, keys, 1) : keys \in KeySeqs \ {<<>>}}
    \cup
    ShortSheets

Files == {Absent, Unreadable} \cup {Workbook(sh) : sh \in Sheets}

\* The files whose tables the sections are rendered on: clean labels,
\* two cities and a number as keys, with and without a blank metric cell.
ViewKeys == {Blank, Str(Austin), Str(RenoPadded), Num(7)}

ViewFiles ==
    {Absent}
    \cup {Workbook(Row3Sheet(City, WaterStress, keys, gap)) :
              keys \in UNION {[1..n -> ViewKeys] : n \in 0..MaxRows},
              gap \in 0..1}

\* The files of the interactive runs: clean labels, one city, and the
\* sheet on which the second read raises.
AppKeys == {Blank, Str(Austin)}

AppKeySeqs == UNION {[1..n -> AppKeys] : n \in 0..MaxRows}

AppSheets ==
    {Row3Sheet(City, WaterStress, keys, 0) : keys \in AppKeySeqs}
    \cup {Row4Sheet(City, WaterStress, keys, 0) : keys \in AppKeySeqs}
    \cup {<<TitleRow, BlankRow, HeaderRow(<<>>, WaterStress)>>}

AppFiles == {Absent, Unreadable} \cup {Workbook(sh) : sh \in AppSheets}

\* Rows of a sheet up to and including its header row.
HeaderRows(sheet) == IF sheet[3][1] = Blank THEN 4 ELSE 3

\* What the file may have become when the next run starts.
NextFiles(f) ==
    IF ~f.exists \/ ~f.readable \/ f.sheet \in ShortSheets THEN AppFiles
    ELSE {f, Absent, Unreadable}
         \cup {Workbook(Append(f.sheet, DataRow(k, Len(f.sheet), FALSE))) :
                    k \in IF Len(f.sheet) - HeaderRows(f.sheet) < MaxRows
                          THEN AppKeys ELSE {}}
         \cup {Workbook(SubSeq(f.sheet, 1, Len(f.sheet) - 1)) :
                    x \in IF Len(f.sheet) > HeaderRows(f.sheet) THEN {0} ELSE {}}

----------------------------------------------------------------------------
(* Ordering.  Python compares str by code point, numbers by value, and     *)
(* refuses to compare a str with a number.                                 *)

\* a < b for str
RECURSIVE str_lt(_, _)
str_lt(a, b) ==
    IF b = <<>> THEN FALSE
    ELSE IF a = <<>> THEN TRUE
    ELSE IF Head(a) = Head(b) THEN str_lt(Tail(a), Tail(b))
    ELSE Head(a) < Head(b)

\* a < b for two texts or two numbers
cell_lt(a, b) == IF a.t = "str" THEN str_lt(a.s, b.s) ELSE a.n < b.n

\* seq with x put after the last element not greater than it.
RECURSIVE insert_sorted(_, _, _)
insert_sorted(seq, x, key) ==
    IF seq = <<>> THEN <<x>>
    ELSE IF cell_lt(key[x], key[seq[Len(seq)]])
         THEN Append(insert_sorted(SubSeq(seq, 1, Len(seq) - 1), x, key), seq[Len(seq)])
         ELSE Append(seq, x)

\* The first n of the positions pos ordered by key, ties in the order of pos.
RECURSIVE argsort(_, _, _)
argsort(key, pos, n) ==
    IF n = 0 THEN <<>> ELSE insert_sorted(argsort(key, pos, n - 1), pos[n], key)

\* Length up to which numpy's quicksort of an object array is an insertion
\* sort, which keeps ties in their order.
SmallSort == 16

\* The orders of the positions pos in which key does not decrease.
sorted_orders(key, pos) ==
    {q \in [1..Len(pos) -> {pos[k] : k \in 1..Len(pos)}] :
        /\ \A a, b \in 1..Len(pos) : a # b => q[a] # q[b]
        /\ \A a, b \in 1..Len(pos) : a < b => ~cell_lt(key[q[b]], key[q[a]])}

\* The comparison the sort makes between a text and a number raises
\* TypeError; missing values are set aside before the sort.
sort_raises(d, name) ==
    LET key == [i \in 1..Len(d.rows) |-> d.rows[i][col_loc(d, name)]]
    IN  \E a, b \in 1..Len(key) :
            /\ key[a] # NaN /\ key[b] # NaN
            /\ (key[a].t = "str") # (key[b].t = "str")

\* df.sort_values(by=name), when it does not raise: the tables it can
\* give.  Missing values go last, in their order.  Ties keep their order
\* in a short object column; in a numeric column, and in a long one, the
\* order of ties is the sort routine's choice (kind="quicksort").
sort_values(d, name) ==
    LET j    == col_loc(d, name)
        key  == [i \in 1..Len(d.rows) |-> d.rows[i][j]]
        pos  == true_positions([i \in 1..Len(key) |-> key[i] # NaN], 1)
        nans == true_positions([i \in 1..Len(key) |-> key[i] = NaN], 1)
    IN  IF d.dtypes[j] = "object" /\ Len(pos) <= SmallSort
        THEN {take(d, argsort(key, pos, Len(pos)) \o nans)}
        ELSE {take(d, q \o nans) : q \in sorted_orders(key, pos)}

\* Distinct elements of seq, each at its first place.
RECURSIVE unique(_)
unique(seq) ==
    IF seq = <<>> THEN <<>>
    ELSE LET init == unique(SubSeq(seq, 1, Len(seq) - 1))
             x    == seq[Len(seq)]
         IN  IF \E i \in 1..Len(init) : init[i] = x THEN init ELSE Append(init, x)

\* list.sort() on a list of str
sorted(seq) ==
    LET key == [i \in 1..Len(seq) |-> Str(seq[i])]
        pos == argsort(key, [i \in 1..Len(seq) |-> i], Len(seq))
    IN  [i \in 1..Len(seq) |-> seq[pos[i]]]

\* Sum of the numbers among values.
RECURSIVE sum(_)
sum(values) ==
    IF values = <<>> THEN 0
    ELSE (IF values[1] = NaN THEN 0 ELSE values[1].n) + sum(Tail(values))

\* Series.mean() of a numeric column as <<sum, count>> of the values that
\* are not missing (the mean is sum / count, and NaN when count is 0).
mean(values) ==
    <<sum(values), Cardinality({i \in 1..Len(values) : values[i] # NaN})>>

----------------------------------------------------------------------------
(* The page a run builds (app.py).                                         *)

Sections == {"Dashboard", "Overview Chart", "City Comparison"}

\* max_selections of the two multiselects
MaxCities  == 4
MaxMetrics == 6

\* len(METRIC_COLORS)
NumColors == 6

El(kind, arg) == [el |-> kind, arg |-> arg]

NoDataDashboard == "No data loaded. Add **Final.Project.Data.xlsx** to this folder."
NoDataLoaded    == "No data loaded. Ensure Final.Project.Data.xlsx is in the app folder."
NoMetrics       == "No metric columns found in the data."
NoCitiesOrMetrics == "No cities or metric columns in the data."
SelectPrompt    == "Select at least one city and one metric to see charts."

\* Nothing on the page yet.  selected_metric is <<>> until the selectbox
\* has returned a name.
EmptyOut == [sidebar |-> <<>>, page |-> <<>>, metrics |-> <<>>,
             selected_metric |-> <<>>,
             selected_cities |-> <<>>, selected_metrics |-> <<>>]

\* inject_css(): one markdown element, the style sheet, on the page
inject_css(o) == [o EXCEPT !.page = Append(@, El("markdown", "<style>"))]

\* st.sidebar.radio("Navigate", ...)
radio(o) == [o EXCEPT !.sidebar = Append(@, El("radio", "Navigate"))]

\* The page when the script reaches setup_sidebar().
StartOfRun == radio(inject_css(EmptyOut))

\* st.sidebar.caption(...) when df is not None
caption(o, d) ==
    IF d.none THEN o
    ELSE [o EXCEPT !.sidebar = Append(@, El("caption", Len(d.rows)))]

\* The values of column name, top to bottom.
column(d, name) ==
    LET j == col_loc(d, name) IN [i \in 1..Len(d.rows) |-> d.rows[i][j]]

\* What a multiselect over options can return: at most max of them, each
\* once, in the order they were picked.
Selections(options, max) ==
    LET n == Len(options)
        m == IF n < max THEN n ELSE max
    IN  {[i \in 1..Len(p) |-> options[p[i]]] :
            p \in {q \in UNION {[1..k -> 1..n] : k \in 0..m} :
                        \A a, b \in 1..Len(q) : a # b => q[a] # q[b]}}

\* Variant: the table is shown without the guard.
dashboard_unguarded(d) ==
    <<El("title", "Data Center Water Risk Dashboard"), El("markdown", ""),
      El("subheader", "Loaded data"), El("dataframe", d)>>

\* The Dashboard branch
dashboard(d) ==
    <<El("title", "Data Center Water Risk Dashboard"), El("markdown", "")>>
    \o (IF ~d.none /\ ~empty(d)
        THEN <<El("subheader", "Loaded data"), El("dataframe", d)>>
        ELSE <<El("info", NoDataDashboard)>>)

\* The Overview Chart branch below the sort: the scatter of one metric of
\* the sorted table
scatter(plot_df, selected_metric) ==
    LET city_col == plot_df.columns[1]
        values   == column(plot_df, selected_metric)
    IN  El("plotly_chart",
           [type |-> "scatter",
            x |-> column(plot_df, city_col),
            y |-> values,
            avg |-> mean(values),
            title |-> selected_metric])

\* df[city_col].dropna().astype(str).str.strip().unique().tolist(), sorted
cities_of(d) ==
    LET keys == column(d, d.columns[1])
        pos  == true_positions([i \in 1..Len(keys) |-> keys[i] # NaN], 1)
    IN  sorted(unique([k \in 1..Len(pos) |-> strip(astype_str(keys[pos[k]]))]))

\* Positions of the rows whose trimmed key text is city_name.
rows_of(d, city_name) ==
    LET keys == column(d, d.columns[1])
    IN  true_positions([i \in 1..Len(keys) |-> strip(astype_str(keys[i])) = city_name], 1)

\* The row at position i as a Series: when every column is numeric and
\* one of them is float64, the row's values are all floats.
iloc(d, i) ==
    LET upcast == /\ \A j \in 1..Len(d.dtypes) : d.dtypes[j] \in {"int64", "float64"}
                  /\ \E j \in 1..Len(d.dtypes) : d.dtypes[j] = "float64"
    IN  [j \in 1..Len(d.columns) |->
            IF upcast /\ d.rows[i][j].t = "int" THEN Flt(d.rows[i][j].n)
            ELSE d.rows[i][j]]

\* The bar figure of city_name built from the row at position i.
bar_figure(d, selected_metrics, city_name, i) ==
    LET row == iloc(d, i)
    IN  [type |-> "bar",
         title |-> city_name,
         x |-> selected_metrics,
         y |-> [m \in 1..Len(selected_metrics) |-> row[col_loc(d, selected_metrics[m])]],
         colors |-> [m \in 1..Len(selected_metrics) |-> (m - 1) % NumColors],
         index |-> d.index[i]]

\* Variant: the last matching row is taken.
make_bar_chart_last(d, selected_metrics, city_name) ==
    LET pos == rows_of(d, city_name)
    IN  IF pos = <<>> THEN <<>>
        ELSE <<bar_figure(d, selected_metrics, city_name, pos[Len(pos)])>>

\* make_bar_chart(city_name): <<>> for None, else the one figure, built
\* from row.iloc[0], the first matching row
make_bar_chart(d, selected_metrics, city_name) ==
    LET pos == rows_of(d, city_name)
    IN  IF pos = <<>> THEN <<>>
        ELSE <<bar_figure(d, selected_metrics, city_name, pos[1])>>

\* The grid loop: the figures in the order they are placed, each with its
\* grid row and column.
RECURSIVE place_charts(_, _, _, _)
place_charts(d, selected_metrics, selected_cities, idx) ==
    LET n_cities     == Len(selected_cities)
        cols_per_row == IF n_cities > 2 THEN 2 ELSE n_cities
    IN  IF idx >= n_cities THEN <<>>
        ELSE LET fig == make_bar_chart(d, selected_metrics, selected_cities[idx + 1])
             IN  (IF fig = <<>> THEN <<>>
                  ELSE <<El("plotly_chart",
                            [fig |-> fig[1],
                             r |-> idx \div cols_per_row,
                             c |-> idx % cols_per_row])>>)
                 \o place_charts(d, selected_metrics, selected_cities, idx + 1)

----------------------------------------------------------------------------
(* The running application: every interaction reruns the script, which    *)
(* injects the style sheet, shows the navigation, calls setup_sidebar and  *)
(* then renders the selected section.  No line of the script catches an    *)
(* exception: the run ends where it is raised, and the page keeps what was *)
(* put on it.  What becomes of the process then is the script runner's     *)
(* doing, which is not part of the program's source; it is taken from the  *)
(* specification (sections 5 and 7): a read error aborts the current       *)
(* render cycle, and the failure does not crash the whole process.         *)

NoCall == Returned(None, <<>>)

\* Variant: the slot keeps what it held.
store_skipped(slot, d) == slot

\* st.session_state["df"] = df
store(slot, d) == d

Init ==
    /\ file \in AppFiles
    /\ session_df = None
    /\ section = "Dashboard"
    /\ df = None
    /\ pc = "run"
    /\ ret = NoCall
    /\ out = StartOfRun
    /\ slot_before = None

\* Where a run stands once an exception has left the script: the render
\* cycle is aborted, the process goes on (specification, sections 5 and 7).
after_exception == "aborted"

\* The script runs again from the top, on a new page, up to the call of
\* setup_sidebar (the file may have changed since the last run).
Rerun ==
    /\ \E sec \in Sections, f \in NextFiles(file) :
          /\ section' = sec
          /\ file' = f
    /\ pc' = "run"
    /\ df' = None
    /\ out' = StartOfRun
    /\ slot_before' = session_df
    /\ UNCHANGED <<session_df, ret>>

\* The user navigates or changes a selection after a run that ended.
Interact ==
    /\ pc = "idle"
    /\ Rerun

\* The user navigates or changes a selection after a run that an exception
\* aborted: the process is still there and answers with a new run
\* (specification, section 7).
InteractAfterError ==
    /\ pc = after_exception
    /\ Rerun

\* setup_sidebar(), then df = st.session_state.get("df").  An exception of
\* load_excel is caught by nobody: the run ends there.
SetupSidebar ==
    /\ pc = "run"
    /\ ret' = load_excel(file)
    /\ IF ret'.raised
       THEN /\ pc' = after_exception
            /\ UNCHANGED <<session_df, df, out>>
       ELSE /\ session_df' = store(session_df, ret'.df)
            /\ out' = caption(out, ret'.df)
            /\ df' = session_df'
            /\ pc' = "view"
    /\ UNCHANGED <<file, section, slot_before>>

Dashboard ==
    /\ pc = "view"
    /\ section = "Dashboard"
    /\ out' = [out EXCEPT !.page = @ \o dashboard(df)]
    /\ pc' = "idle"
    /\ UNCHANGED <<file, session_df, section, df, ret, slot_before>>

OverviewChart ==
    /\ pc = "view"
    /\ section = "Overview Chart"
    /\ LET head    == <<El("title", "Overview Chart"), El("markdown", "")>>
           metrics == get_metric_columns(df)
       IN  IF df.none \/ empty(df)
           THEN /\ out' = [out EXCEPT !.page = @ \o head \o <<El("warning", NoDataLoaded)>>]
                /\ pc' = "idle"
           ELSE IF metrics = <<>>
           THEN /\ out' = [out EXCEPT !.page = @ \o head \o <<El("warning", NoMetrics)>>,
                                      !.metrics = metrics]
                /\ pc' = "idle"
           ELSE \E i \in 1..Len(metrics) :
                   IF sort_raises(df, df.columns[1])
                   THEN /\ out' = [out EXCEPT
                                     !.page = @ \o head \o <<El("selectbox", metrics[i])>>,
                                     !.metrics = metrics,
                                     !.selected_metric = <<metrics[i]>>]
                        /\ pc' = after_exception
                   ELSE /\ \E plot_df \in sort_values(df, df.columns[1]) :
                              out' = [out EXCEPT
                                        !.page = @ \o head
                                                   \o <<El("selectbox", metrics[i]),
                                                        scatter(plot_df, metrics[i])>>,
                                        !.metrics = metrics,
                                        !.selected_metric = <<metrics[i]>>]
                        /\ pc' = "idle"
    /\ UNCHANGED <<file, session_df, section, df, ret, slot_before>>

CityComparison ==
    /\ pc = "view"
    /\ section = "City Comparison"
    /\ LET head       == <<El("title", "City Comparison"), El("markdown", "")>>
           metrics    == get_metric_columns(df)
           cities_all == cities_of(df)
       IN  IF df.none \/ empty(df)
           THEN out' = [out EXCEPT !.page = @ \o head \o <<El("warning", NoDataLoaded)>>]
           ELSE IF metrics = <<>> \/ cities_all = <<>>
           THEN out' = [out EXCEPT !.page = @ \o head \o <<El("warning", NoCitiesOrMetrics)>>,
                                   !.metrics = metrics]
           ELSE \E selected_cities \in Selections(cities_all, MaxCities),
                   selected_metrics \in Selections(metrics, MaxMetrics) :
                   out' = [out EXCEPT
                             !.page = @ \o head
                                 \o <<El("multiselect", selected_cities),
                                      El("multiselect", selected_metrics)>>
                                 \o (IF selected_cities = <<>> \/ selected_metrics = <<>>
                                     THEN <<El("info", SelectPrompt)>>
                                     ELSE place_charts(df, selected_metrics,
                                                       selected_cities, 0)),
                             !.metrics = metrics,
                             !.selected_cities = selected_cities,
                             !.selected_metrics = selected_metrics]
    /\ pc' = "idle"
    /\ UNCHANGED <<file, session_df, section, df, ret, slot_before>>

Next ==
    \/ Interact
    \/ InteractAfterError
    \/ SetupSidebar
    \/ Dashboard
    \/ OverviewChart
    \/ CityComparison

Spec == Init /\ [][Next]_vars

----------------------------------------------------------------------------
(* load_excel and get_metric_columns called on their own, on every file   *)
(* and on every table.                                                     *)

\* The first column of a table alone.
first_column(d) ==
    DataFrame(SubSeq(d.columns, 1, 1), SubSeq(d.dtypes, 1, 1), d.index,
              [i \in 1..Len(d.rows) |-> SubSeq(d.rows[i], 1, 1)])

\* Tables a caller may pass: absent, without columns, with one column,
\* with metric columns; with and without rows.
Tables ==
    LET loaded == {load_excel(f).df : f \in ViewFiles}
    IN  loaded
        \cup {first_column(d) : d \in loaded \ {None}}
        \cup {DataFrame(<<>>, <<>>, <<>>, <<>>)}

UnitInit ==
    /\ \/ /\ pc = "load"
          /\ file \in Files
          /\ df = None
       \/ /\ pc = "arg"
          /\ file = Absent
          /\ df \in Tables
    /\ session_df = None
    /\ section = "Dashboard"
    /\ ret = NoCall
    /\ out = EmptyOut
    /\ slot_before = None

\* df = load_excel()
CallLoadExcel ==
    /\ pc = "load"
    /\ ret' = load_excel(file)
    /\ IF ret'.raised
       THEN pc' = "raised" /\ df' = df
       ELSE pc' = "loaded" /\ df' = ret'.df
    /\ UNCHANGED <<file, session_df, section, out, slot_before>>

\* metrics = get_metric_columns(df)
CallGetMetricColumns ==
    /\ pc \in {"loaded", "arg"}
    /\ out' = [out EXCEPT !.metrics = get_metric_columns(df)]
    /\ pc' = IF pc = "loaded" THEN "done" ELSE "arg_done"
    /\ UNCHANGED <<file, session_df, section, df, ret, slot_before>>

UnitNext ==
    \/ CallLoadExcel
    \/ CallGetMetricColumns

SpecUnit == UnitInit /\ [][UnitNext]_vars

----------------------------------------------------------------------------
(* The three sections rendered on their own, on every table, from the      *)
(* point where setup_sidebar has returned.                                 *)

ViewInit ==
    /\ pc = "view"
    /\ df \in Tables
    /\ session_df = df
    /\ section \in Sections
    /\ file = Absent
    /\ ret = NoCall
    /\ out = caption(StartOfRun, df)
    /\ slot_before = None

ViewNext ==
    \/ Dashboard
    \/ OverviewChart
    \/ CityComparison

SpecView == ViewInit /\ [][ViewNext]_vars

----------------------------------------------------------------------------
(* Vocabulary of the properties, stated on the sheet and on the page       *)
(* without the loader's own operators.  The sheets of the model have a     *)
(* value in their last row, so a sheet's length is its number of lines.    *)

IsBlankText(s) == \A i \in 1..Len(s) : s[i] \in Whitespace

\* t is r without its leading and trailing whitespace.
IsTrimOf(t, r) ==
    /\ \E i \in 1..(Len(r) + 1), k \in 0..Len(r) :
          /\ t = SubSeq(r, i, k)
          /\ \A a \in 1..(i - 1) : r[a] \in Whitespace
          /\ \A b \in (k + 1)..Len(r) : r[b] \in Whitespace
    /\ t # <<>> => t[1] \notin Whitespace /\ t[Len(t)] \notin Whitespace

HasPrefix(s, p) == Len(s) >= Len(p) /\ \A i \in 1..Len(p) : s[i] = p[i]

\* A call of load_excel has ended (returned or raised).
LoadEnded == pc \in {"loaded", "raised", "done"}

\* load_excel has returned a table of a readable file.
TableReturned == pc \in {"loaded", "done"} /\ file.exists /\ file.readable

\* Physical row (zero-based) of the header the returned table was read with.
HeaderUsed == ret.reads[Len(ret.reads)]

\* The sheet's header cells and the rows below them, as they are in the file.
SourceHeader == file.sheet[HeaderUsed + 1]
SourceRows ==
    [i \in 1..(Len(file.sheet) - HeaderUsed - 1) |-> file.sheet[HeaderUsed + 1 + i]]

\* A key cell that holds a name: a number, or a text that is not blank.
ValidKey(c) == c.t \in {"int", "float"} \/ (c.t = "str" /\ ~IsBlankText(c.s))

\* The cell a of a table holds what the cell b of the sheet holds: the same
\* text, the same number, or nothing.
SameCell(a, b) ==
    IF b = Blank THEN a = NaN
    ELSE IF b.t = "str" THEN a = b
    ELSE a.t \in {"int", "float"} /\ a.n = b.n

SameRow(a, b) == Len(a) = Len(b) /\ \A j \in 1..Len(b) : SameCell(a[j], b[j])

\* The k-th smallest element of a set of numbers.
Kth(S, k) == CHOOSE p \in S : Cardinality({q \in S : q < p}) = k - 1

Charts(page) == SelectSeq(page, LAMBDA e : e.el = "plotly_chart")
Has(page, kind) == \E i \in 1..Len(page) : page[i].el = kind

----------------------------------------------------------------------------
(* Properties.                                                             *)

\* C1: when the file does not exist, load_excel returns None, raises
\* nothing and reads nothing, and get_metric_columns of that result is
\* the empty list.
C1_Absence ==
    /\ (LoadEnded /\ ~file.exists) =>
            /\ ~ret.raised
            /\ ret.df = None
            /\ ret.reads = <<>>
            /\ df = None
    /\ (pc = "done" /\ ~file.exists) => out.metrics = <<>>

C1_Witness ==
    pc = "done" /\ ~file.exists /\ ret.df = None /\ df = None /\ out.metrics = <<>>

\* A label of the first column: a text that is not blank and not a
\* placeholder name.
ValidLabel(c) == c.t = "str" /\ ~IsBlankText(c.s) /\ ~HasPrefix(c.s, Unnamed)

\* The first column name of a read with header row 2 is a placeholder.
FirstHeaderIsPlaceholder ==
    file.sheet[3][1] = Blank \/ HasPrefix(file.sheet[3][1].s, Unnamed)

\* What C2 says of the reads of every load.
C2_Reads ==
    (LoadEnded /\ file.exists) =>
        /\ Len(ret.reads) \in {1, 2}
        /\ ret.reads[1] = 2
        /\ Len(ret.reads) = 2 => ret.reads[2] = 3
        /\ (file.readable /\ Len(file.sheet) < 3) => Len(ret.reads) = 1
        /\ (file.readable /\ Len(file.sheet) >= 3) =>
              (Len(ret.reads) = 2 <=> FirstHeaderIsPlaceholder)
        /\ TableReturned =>
              /\ Len(ret.df.columns) = Len(SourceHeader)
              /\ \A j \in 1..Len(SourceHeader) :
                    SourceHeader[j] # Blank =>
                        IsTrimOf(ret.df.columns[j].s, SourceHeader[j].s)
              /\ Len(ret.df.rows) <= Len(SourceRows)

\* C2 as amended: the first read has header row 2; a second read, with
\* header row 3, is made exactly when the first column name of the first
\* read is a placeholder, and then the table comes from the second read
\* alone; there are at most two reads; and when the first cell of physical
\* row 2 is blank and physical row 3 holds a valid label, the first column
\* name is that label without its leading and trailing whitespace, and is
\* no placeholder.
C2_HeaderFallback ==
    /\ C2_Reads
    /\ (TableReturned /\ file.sheet[3][1] = Blank /\ ValidLabel(file.sheet[4][1])) =>
            /\ IsTrimOf(ret.df.columns[1].s, file.sheet[4][1].s)
            /\ ~HasPrefix(ret.df.columns[1].s, Unnamed)

\* C2 as written: ... the first column name equals that label.
C2_Original ==
    /\ C2_Reads
    /\ (TableReturned /\ file.sheet[3][1] = Blank /\ ValidLabel(file.sheet[4][1])) =>
            /\ ret.df.columns[1] = file.sheet[4][1]
            /\ ~HasPrefix(ret.df.columns[1].s, Unnamed)

C2_Witness ==
    /\ pc = "loaded"
    /\ ret.reads = <<2, 3>>
    /\ file.sheet[4][1] = Str(pad(City))
    /\ ret.df.columns[1] = Str(City)
    /\ Len(ret.df.rows) >= 2

\* C3: no row of the returned table has a null, empty or whitespace-only
\* key, and every row of the file below the header whose key is not blank
\* is in the returned table.
C3_BlankKeyFiltering ==
    TableReturned =>
        /\ \A i \in 1..Len(ret.df.rows) : ValidKey(ret.df.rows[i][1])
        /\ \A r \in 1..Len(SourceRows) :
              ValidKey(SourceRows[r][1]) =>
                  \E i \in 1..Len(ret.df.rows) : SameRow(ret.df.rows[i], SourceRows[r])

\* C4: the rows of the returned table are the rows of the file below the
\* header that have valid keys, in the file's order, each once, and their
\* labels are 0..n-1.
C4_RowOrder ==
    TableReturned =>
        LET valid == {r \in 1..Len(SourceRows) : ValidKey(SourceRows[r][1])}
        IN  /\ Len(ret.df.rows) = Cardinality(valid)
            /\ Len(ret.df.index) = Cardinality(valid)
            /\ \A k \in 1..Cardinality(valid) :
                  /\ k <= Len(ret.df.rows) =>
                        SameRow(ret.df.rows[k], SourceRows[Kth(valid, k)])
                  /\ k <= Len(ret.df.index) => ret.df.index[k] = k - 1

\* C6: get_metric_columns returns the empty list for an absent table, an
\* empty table and a table with fewer than two columns, and otherwise the
\* column names after the first, in order; the table is left as it was.
C6_MetricColumns ==
    pc \in {"done", "arg_done"} =>
        /\ (df = None \/ Len(df.rows) = 0 \/ Len(df.columns) < 2) => out.metrics = <<>>
        /\ (df # None /\ Len(df.rows) > 0 /\ Len(df.columns) >= 2) =>
              /\ Len(out.metrics) = Len(df.columns) - 1
              /\ \A j \in 1..Len(out.metrics) : out.metrics[j] = df.columns[j + 1]
        /\ pc = "done" => df = ret.df

C6_Witness ==
    /\ pc = "done"
    /\ Len(df.rows) > 0
    /\ Len(df.columns) >= 3
    /\ df.columns[1] = Str(City)
    /\ Len(out.metrics) = Len(df.columns) - 1
    /\ out.metrics[1] = Str(WaterStress)
    /\ out.metrics[2] = Str(Rank)

\* C9: every column name of a returned table is the header cell's text
\* without leading and trailing whitespace, nothing else changed, in the
\* header's order, whichever header row the table was read with.
C9_ColumnNamesTrimmed ==
    TableReturned =>
        /\ Len(ret.df.columns) = Len(SourceHeader)
        /\ \A j \in 1..Len(ret.df.columns) :
              LET name == ret.df.columns[j].s
              IN  /\ ret.df.columns[j].t = "str"
                  /\ name # <<>> => name[1] \notin Whitespace /\ name[Len(name)] \notin Whitespace
                  /\ SourceHeader[j] # Blank => IsTrimOf(name, SourceHeader[j].s)
                  /\ SourceHeader[j] = Str(pad(WaterStress)) => name = WaterStress

C9_Witness ==
    /\ pc = "loaded"
    /\ ret.reads = <<2, 3>>
    /\ file.sheet[4][2] = Str(pad(WaterStress))
    /\ ret.df.columns[2] = Str(WaterStress)
    /\ ret.df.columns[3] = Str(Rank)

\* The file exists and a read of it fails: the workbook cannot be read, or
\* the sheet ends above the header row a read asks for.
ReadFails ==
    /\ file.exists
    /\ \/ ~file.readable
       \/ Len(file.sheet) < 3
       \/ Len(file.sheet) = 3 /\ FirstHeaderIsPlaceholder

\* The section's elements of the page: what follows the style sheet.
SectionPart(page) == SubSeq(page, 2, Len(page))

\* C5: a read failure on a file that exists is not taken for absence:
\* load_excel raises and returns nothing; the run ends there with nothing
\* of the section on the page and no caption, the process is still there
\* and takes the next interaction, and a run on an absent file ends
\* otherwise, with the section's message.
C5_ReadFailure ==
    /\ (pc # "run" /\ ReadFails) =>
            /\ pc = "aborted"
            /\ ret.raised
            /\ ret.df = None
            /\ ret.reads \in {<<2>>, <<2, 3>>}
            /\ SectionPart(out.page) = <<>>
            /\ ~Has(out.sidebar, "caption")
    /\ (pc # "run" /\ ret.raised) => ReadFails
    /\ (pc # "run" /\ ReadFails) => ENABLED InteractAfterError
    /\ (pc # "run" /\ ~file.exists) =>
            /\ pc \in {"view", "idle"}
            /\ ~ret.raised
            /\ ret.df = None
            /\ pc = "idle" => Has(out.page, "info") \/ Has(out.page, "warning")

C5_Witness ==
    /\ pc = "aborted"
    /\ file = Unreadable
    /\ ret.raised
    /\ session_df # None
    /\ Len(session_df.rows) > 0

\* What C7 says of the runs and of what a section is rendered from: no
\* section is on the page before the run's own load has returned, and a
\* section is rendered from what that load returned, the load of the file
\* as it is in this run.
C7_Render ==
    /\ (pc \in {"view", "idle"} \/ (pc = "aborted" /\ ~ret.raised)) =>
            /\ ret = load_excel(file)
            /\ ~ret.raised
            /\ df = ret.df
    /\ (pc = "run" \/ (pc = "aborted" /\ ret.raised)) => SectionPart(out.page) = <<>>
    /\ (pc = "aborted" /\ ret.raised) => ret = load_excel(file)
    /\ \A i \in 1..Len(out.page) :
          out.page[i].el = "dataframe" => out.page[i].arg = ret.df

\* C7 as amended: every run loads before it renders; a load that returns
\* (a table or None) overwrites the slot with what it returned, and the
\* section is rendered from that; a load that raises leaves in the slot
\* what it held when the run started, and the run renders no section.
C7_CurrentTable ==
    /\ C7_Render
    /\ (pc \in {"view", "idle", "aborted"} /\ ~ret.raised) =>
            session_df = ret.df /\ df = session_df
    /\ (pc = "aborted" /\ ret.raised) => session_df = slot_before
    /\ pc = "run" => session_df = slot_before

\* C7 as written: after the load of every run the slot holds what that
\* load gave (nothing, when it raised), never what an earlier load gave.
C7_Original ==
    /\ C7_Render
    /\ pc \in {"view", "idle", "aborted"} => session_df = ret.df

\* After an interaction, with another table in the slot than the one the
\* run started with, and the section rendered from it.
C7_Witness ==
    /\ pc = "idle"
    /\ section = "Dashboard"
    /\ slot_before # None
    /\ Len(slot_before.rows) = 1
    /\ ret.reads = <<2, 3>>
    /\ Len(session_df.rows) >= 2
    /\ session_df # slot_before
    /\ out.page[Len(out.page)] = El("dataframe", session_df)

\* C8: when the current table is absent, each section shows its title, its
\* text and its guidance message, and no table, chart or selector.
C8_AbsentGuidance ==
    (pc = "idle" /\ session_df = None) =>
        /\ df = None
        /\ ~Has(out.page, "dataframe")
        /\ ~Has(out.page, "plotly_chart")
        /\ ~Has(out.page, "selectbox")
        /\ ~Has(out.page, "multiselect")
        /\ Len(SectionPart(out.page)) = 3
        /\ SectionPart(out.page)[3] = IF section = "Dashboard"
                                      THEN El("info", NoDataDashboard)
                                      ELSE El("warning", NoDataLoaded)
        /\ out.selected_metric = <<>>
        /\ out.selected_cities = <<>>
        /\ out.selected_metrics = <<>>

C8_Witness ==
    /\ pc = "idle"
    /\ session_df = None
    /\ ~file.exists
    /\ section = "City Comparison"
    /\ out.page[Len(out.page)] = El("warning", NoDataLoaded)

\* Rows of df (positions) whose key, as text and trimmed, is the text city.
Matching(city) ==
    {r \in 1..Len(df.rows) : IsTrimOf(city, astype_str(df.rows[r][1]))}

Min(S) == CHOOSE p \in S : \A q \in S : p <= q

\* Position of the selected city a chart is titled with.
CityAt(chart) ==
    CHOOSE k \in 1..Len(out.selected_cities) : out.selected_cities[k] = chart.arg.fig.title

\* The value v of a figure is the number or the gap the cell c holds.
SameValue(v, c) ==
    IF c.t \in {"nan", "str"} THEN v = c ELSE v.t \in {"int", "float"} /\ v.n = c.n

\* C10: with no metric columns (Overview Chart, City Comparison), or with
\* no city or no metric selected (City Comparison), the section shows a
\* prompt and no chart and the run ends without an error; with k selected
\* cities (1..4) and a selected metric, the charts are at most one per
\* selected city, in the order of the selection, each from the first row
\* whose trimmed key is that city.
C10_SoftSelections ==
    /\ pc \in {"view", "idle", "aborted"}
    /\ pc = "aborted" => section = "Overview Chart" /\ Len(df.columns) >= 2
    /\ pc = "idle" => SectionPart(out.page) # <<>>
    /\ (pc = "idle" /\ df # None /\ Len(df.rows) > 0 /\ Len(df.columns) > 0) =>
        LET charts  == Charts(out.page)
            cities  == out.selected_cities
            metrics == out.selected_metrics
            last    == out.page[Len(out.page)]
        IN  /\ (section = "Overview Chart" /\ Len(df.columns) < 2) =>
                    charts = <<>> /\ last = El("warning", NoMetrics)
            /\ (section = "City Comparison" /\ Len(df.columns) < 2) =>
                    charts = <<>> /\ last = El("warning", NoCitiesOrMetrics)
            /\ (section = "City Comparison" /\ Len(df.columns) >= 2
                    /\ (cities = <<>> \/ metrics = <<>>)) =>
                    charts = <<>> /\ last = El("info", SelectPrompt)
            /\ (section = "City Comparison" /\ Len(df.columns) >= 2
                    /\ cities # <<>> /\ metrics # <<>>) =>
                    /\ Len(cities) \in 1..MaxCities
                    /\ Len(charts) <= Len(cities)
                    /\ ~Has(out.page, "info") /\ ~Has(out.page, "warning")
                    /\ \A i \in 1..Len(charts) :
                          LET fig == charts[i].arg.fig
                              row == df.rows[Min(Matching(fig.title))]
                          IN  /\ \E k \in 1..Len(cities) : cities[k] = fig.title
                              /\ \A j \in 1..(i - 1) : CityAt(charts[j]) < CityAt(charts[i])
                              /\ Matching(fig.title) # {}
                              /\ fig.index = df.index[Min(Matching(fig.title))]
                              /\ fig.x = metrics
                              /\ \A m \in 1..Len(metrics) :
                                    \E c \in 2..Len(df.columns) :
                                        /\ df.columns[c] = metrics[m]
                                        /\ SameValue(fig.y[m], row[c])

C10_Witness ==
    /\ pc = "idle"
    /\ section = "City Comparison"
    /\ Len(df.rows) = 3
    /\ df.rows[1][1] = Str(Austin)
    /\ df.rows[2][1] = Str(Austin)
    /\ df.rows[3][1] = Str(RenoPadded)
    /\ out.selected_cities = <<Reno, Austin>>
    /\ out.selected_metrics = <<Str(Rank)>>
    /\ Len(Charts(out.page)) = 2
    /\ Charts(out.page)[2].arg.fig.index = 0

====
